---- MODULE Spec2Model ----
(***************************************************************************)
(* Ingestion-and-index subsystem of RAGoLLAMA (test9): the ingestion       *)
(* ledger, the chunker, the deduper, the embedding cache, the FAISS-backed *)
(* vector store and the pipeline that RAGService.ingest_document drives.   *)
(*                                                                         *)
(* A text is a sequence of words (what str.split() returns); a chunk text  *)
(* is the sequence of the words that " ".join() glues together.  A sha256  *)
(* of a text is represented by the text it hashes (collision free).  A     *)
(* file is identified by the sha256 of its bytes, so the content_hash      *)
(* names the file and its words.                                           *)
(***************************************************************************)
EXTENDS Integers, Sequences, FiniteSets, TLC

(***************************************************************************)
(* Bounds of the model.                                                    *)
(***************************************************************************)
\* ingest_document calls made one after the other in one behaviour
MaxCalls == 3
\* ingest_document calls made by concurrent workers in one behaviour
MaxConcurrentCalls == 2
\* times the ledger database becomes unavailable in one behaviour
MaxFaults == 1
\* seconds the wall clock may advance (datetime.now() in _generate_version)
MaxClock == 1
\* direct operations on a VectorStore instance in one behaviour
MaxStoreOps == 4
\* largest k of a query
MaxK == 2
\* calls of add and query on the shared store in one behaviour
MaxSharedOps == 3
\* longest text (in words) and largest chunk_size given to chunk_text on its own
MaxWords == 10
MaxChunkSize == 4
\* chunks one chunk_text generator is asked for before the caller gives up
MaxYields == 6
\* requests made through one GraphClient in one behaviour
MaxRequests == 2
\* length of the long text chunked with the default chunk_size and chunk_overlap
ExampleWords == 1500
\* Chunker.chunk_size and Chunker.chunk_overlap, scaled down from 512 / 50
ChunkSize == 2
ChunkOverlap == 1
\* VectorStore.dimension, scaled down from 384
Dimension == 2

Workers == {"w1", "w2"}
DocIds == {"d1", "d2"}
Hashes == {"h1", "h2", "h3"}
Model == "all-MiniLM-L6-v2"

Min(a, b) == IF a <= b THEN a ELSE b

Range(s) == {s[i] : i \in 1..Len(s)}

(***************************************************************************)
(* Files.  FileWords(h) is the text of the file whose sha256 is h, split   *)
(* into words; FileIsText(h) is FALSE for a file that is not UTF-8 text.   *)
(***************************************************************************)
FileWords(h) ==
    CASE h = "h1" -> <<"A", "b">>
      [] h = "h2" -> <<"a", "b", "c">>
      [] h = "h4" -> <<"a", "a", "a", "a", "b">>
      [] OTHER -> <<>>

FileIsText(h) == h # "h3"

\* content_hash[:16], the doc_id DoclingRunner.process_document derives
FileDocId(h) == h

(***************************************************************************)
(* DoclingRunner.process_to_jsonl: one record per file, or an exception.   *)
(***************************************************************************)
DoclingProcess(h) ==
    IF FileIsText(h)
    THEN [ok |-> TRUE, pages |-> << [doc_id |-> FileDocId(h), text |-> FileWords(h)] >>]
    ELSE [ok |-> FALSE, pages |-> <<>>]

(***************************************************************************)
(* Chunker.chunk_text                                                      *)
(***************************************************************************)
MkChunk(docId, multi, order, words) ==
    [chunk_id |-> [doc |-> docId, multi |-> multi, order |-> order, text |-> words],
     doc_id |-> docId, text |-> words, sha256 |-> words, order |-> order]

\* the Chunker the pipeline constructs
PipelineChunker == [chunk_size |-> ChunkSize, chunk_overlap |-> ChunkOverlap]

\* an advance of the window that forgets the overlap
NextStart_NoOverlap(self, end_idx) == end_idx

\* start_idx = end_idx - self.chunk_overlap
NextStart(self, end_idx) == end_idx - self.chunk_overlap

RECURSIVE ChunkWindows(_, _, _, _, _)
ChunkWindows(self, words, docId, start_idx, chunk_order) ==
    IF start_idx >= Len(words) THEN <<>>
    ELSE LET end_idx == Min(start_idx + self.chunk_size, Len(words))
             chunk_words == SubSeq(words, start_idx + 1, end_idx)
             chunk == MkChunk(docId, TRUE, chunk_order, chunk_words)
         IN  IF end_idx >= Len(words) THEN <<chunk>>
             ELSE <<chunk>> \o ChunkWindows(self, words, docId, NextStart(self, end_idx),
                                            chunk_order + 1)

ChunkText(self, words, docId) ==
    IF Len(words) <= self.chunk_size
    THEN << MkChunk(docId, FALSE, 0, words) >>
    ELSE ChunkWindows(self, words, docId, 0, 0)

RECURSIVE ChunkerProcess(_)
ChunkerProcess(pages) ==
    IF pages = <<>> THEN <<>>
    ELSE ChunkText(PipelineChunker, Head(pages).text, Head(pages).doc_id)
             \o ChunkerProcess(Tail(pages))

(***************************************************************************)
(* Deduper                                                                 *)
(***************************************************************************)
Lower(w) == CASE w = "A" -> "a" [] w = "B" -> "b" [] w = "C" -> "c" [] OTHER -> w

\* " ".join(text.lower().split())
NormalizeText(text) == [i \in 1..Len(text) |-> Lower(text[i])]

\* Deduper.deduplicate_chunk on the registry reg (insertion ordered)
DeduplicateChunk(reg, chunk) ==
    LET content_hash == NormalizeText(chunk.text)
        hits == {i \in 1..Len(reg) : reg[i].sha256 = content_hash}
    IN  IF hits # {}
        THEN LET i == CHOOSE j \in hits : TRUE
             IN  IF chunk.doc_id \in Range(reg[i].doc_ids) THEN reg
                 ELSE [reg EXCEPT ![i].doc_ids = Append(@, chunk.doc_id)]
        ELSE Append(reg, [chunk_id |-> chunk.chunk_id, text |-> chunk.text,
                          sha256 |-> content_hash, doc_ids |-> <<chunk.doc_id>>,
                          order |-> chunk.order])

\* Deduper.process_jsonl: first pass over the chunks, then the whole registry
RECURSIVE DeduperProcess(_, _)
DeduperProcess(reg, chunks) ==
    IF chunks = <<>> THEN reg
    ELSE DeduperProcess(DeduplicateChunk(reg, Head(chunks)), Tail(chunks))

(***************************************************************************)
(* Embedder and EmbeddingCache.  The embedding model is an external        *)
(* collaborator: Embed is a fixed deterministic stand-in that maps a text  *)
(* to an axis-aligned vector of the configured dimension.                  *)
(***************************************************************************)
WordCode(w) == CASE w = "A" -> 1 [] w = "a" -> 2 [] w = "b" -> 3 [] w = "c" -> 4 [] OTHER -> 5

RECURSIVE TextCode(_)
TextCode(text) == IF text = <<>> THEN 0 ELSE WordCode(Head(text)) + TextCode(Tail(text))

Embed(text) == [i \in 1..Dimension |-> IF i = 1 + (TextCode(text) % Dimension) THEN 2 ELSE 0]

\* what a misconfigured embedder returns: one component too many
BadVector == [i \in 1..(Dimension + 1) |-> 1]

\* _compute_cache_key: sha256 of f"{model}:{text}".  Strings are sequences of
\* pieces, the f-string is their concatenation, and the digest stands for the
\* string that was hashed (sha256 is taken to be collision-free).
ComputeCacheKey(text, model) == model \o <<":">> \o text

\* EmbeddingCache.get: <<>> is None, <<v>> is the unpickled vector_data
CacheGet(c, text, model) ==
    IF ComputeCacheKey(text, model) \in DOMAIN c
    THEN << c[ComputeCacheKey(text, model)].vector_data >>
    ELSE <<>>

\* EmbeddingCache.put: INSERT OR REPLACE of the row (cache_key, model, vector_data)
CachePut(c, text, model, vector) ==
    [k \in DOMAIN c \cup {ComputeCacheKey(text, model)} |->
        IF k = ComputeCacheKey(text, model)
        THEN [model |-> model, vector_data |-> vector]
        ELSE c[k]]

\* EmbeddingCache.clear: model = <<>> is None (or ""), which deletes every row
CacheClear(c, model) ==
    IF model # <<>>
    THEN [k \in {j \in DOMAIN c : c[j].model # model} |-> c[k]]
    ELSE <<>>

(***************************************************************************)
(* The embedding loop of IngestionPipeline.process_document.  mode is what *)
(* the embedder does on a miss: "ok", "baddim" (a vector of the wrong      *)
(* length) or "raise"; or what the cache does when it is unavailable:      *)
(* "get_raises" (embedding_cache.get raises) or "put_raises" (get answers, *)
(* embedding_cache.put raises).  acc = [cache, out, raised, bad].          *)
(***************************************************************************)
RECURSIVE EmbedLoop(_, _, _, _)
EmbedLoop(acc, chunks, doc_id, mode) ==
    IF chunks = <<>> \/ acc.raised THEN acc
    ELSE LET chunk_data == Head(chunks)
             cached == CacheGet(acc.cache, chunk_data.text, <<Model>>)
             miss == cached = <<>>
             vector == IF ~miss THEN cached[1]
                       ELSE IF mode = "baddim" THEN BadVector ELSE Embed(chunk_data.text)
             item == [chunk_id |-> chunk_data.chunk_id, vector |-> vector,
                      metadata |-> [doc_id |-> doc_id, order |-> chunk_data.order]]
         IN  IF mode = "get_raises" \/ (miss /\ mode \in {"raise", "put_raises"})
             THEN [acc EXCEPT !.raised = TRUE]
             ELSE EmbedLoop([cache |-> IF miss
                                       THEN CachePut(acc.cache, chunk_data.text, <<Model>>, vector)
                                       ELSE acc.cache,
                             out |-> Append(acc.out, item),
                             raised |-> FALSE,
                             bad |-> acc.bad \/ (miss /\ mode = "baddim")],
                            Tail(chunks), doc_id, mode)

(***************************************************************************)
(* VectorStore.  An instance is [index, chunk_metadata, current_version];  *)
(* index is the FAISS IndexFlatIP as the sequence of its vectors (FAISS id *)
(* i is element i + 1).  A metadata entry carries rank, its place in the   *)
(* dict's insertion order.                                                 *)
(***************************************************************************)
RECURSIVE Dot(_, _)
Dot(u, v) == IF u = <<>> \/ v = <<>> THEN 0 ELSE Head(u) * Head(v) + Dot(Tail(u), Tail(v))

Isqrt(n) == CHOOSE r \in 0..n : r * r <= n /\ (r + 1) * (r + 1) > n

\* VectorStore._normalize_vector (exact on axis-aligned integer vectors)
NormalizeVector(vector) ==
    LET norm == Isqrt(Dot(vector, vector))
    IN  IF norm = 0 THEN vector ELSE [i \in 1..Len(vector) |-> vector[i] \div norm]

\* VectorStore._generate_version: the wall clock to the second
GenerateVersion(now) == now

CreateNewIndex(now) ==
    [index |-> <<>>, chunk_metadata |-> <<>>, current_version |-> GenerateVersion(now)]

NoDisk == [exists |-> FALSE, index |-> <<>>, chunk_metadata |-> <<>>, version |-> 0]

\* VectorStore._load_or_create_index
LoadOrCreateIndex(d, now) ==
    IF d.exists
    THEN [index |-> d.index, chunk_metadata |-> d.chunk_metadata,
          current_version |-> d.version]
    ELSE CreateNewIndex(now)

\* VectorStore._save_index
SaveIndex(store) ==
    [exists |-> TRUE, index |-> store.index, chunk_metadata |-> store.chunk_metadata,
     version |-> store.current_version]

\* self.chunk_metadata[chunk_id] = {**chunk_metadata, "index_id": ..., "added_at": ...}
PutMetadata(meta, chunk_id, chunk_metadata, index_id) ==
    [c \in DOMAIN meta \cup {chunk_id} |->
        IF c = chunk_id
        THEN [doc_id |-> chunk_metadata.doc_id, order |-> chunk_metadata.order,
              index_id |-> index_id, deleted |-> FALSE,
              rank |-> IF chunk_id \in DOMAIN meta THEN meta[chunk_id].rank
                       ELSE Cardinality(DOMAIN meta)]
        ELSE meta[c]]

\* mutant of the loop: no test of the dimension
RECURSIVE UpsertScan_NoCheck(_, _, _, _, _)
UpsertScan_NoCheck(meta, vector_data, ntotal, vectors, i) ==
    IF i > Len(vectors)
    THEN [raised |-> FALSE, meta |-> meta, vector_data |-> vector_data]
    ELSE UpsertScan_NoCheck(PutMetadata(meta, vectors[i].chunk_id, vectors[i].metadata,
                                        ntotal + (i - 1)),
                            Append(vector_data, NormalizeVector(vectors[i].vector)),
                            ntotal, vectors, i + 1)

\* the for loop of VectorStore.upsert, from item i on
RECURSIVE UpsertScan(_, _, _, _, _)
UpsertScan(meta, vector_data, ntotal, vectors, i) ==
    IF i > Len(vectors)
    THEN [raised |-> FALSE, meta |-> meta, vector_data |-> vector_data]
    ELSE IF Len(vectors[i].vector) # Dimension
    THEN [raised |-> TRUE, meta |-> meta, vector_data |-> vector_data]
    ELSE UpsertScan(PutMetadata(meta, vectors[i].chunk_id, vectors[i].metadata,
                                ntotal + (i - 1)),
                    Append(vector_data, NormalizeVector(vectors[i].vector)),
                    ntotal, vectors, i + 1)

\* VectorStore.upsert: [raised, saved, store, version]
VectorStoreUpsert(store, vectors, now) ==
    IF vectors = <<>>
    THEN [raised |-> FALSE, saved |-> FALSE, store |-> store,
          version |-> store.current_version]
    ELSE LET s == UpsertScan(store.chunk_metadata, <<>>, Len(store.index), vectors, 1)
         IN  IF s.raised
             THEN [raised |-> TRUE, saved |-> FALSE,
                   store |-> [store EXCEPT !.chunk_metadata = s.meta],
                   version |-> store.current_version]
             ELSE [raised |-> FALSE, saved |-> TRUE,
                   store |-> [index |-> store.index \o s.vector_data,
                              chunk_metadata |-> s.meta,
                              current_version |-> GenerateVersion(now)],
                   version |-> GenerateVersion(now)]

\* the FAISS ids index.search may return for k: the k best by inner product,
\* best first, ties in any order
SearchResults(index, query_vector, k) ==
    LET n == Len(index)
        m == Min(k, n)
        score(p) == Dot(index[p], query_vector)
    IN  {r \in [1..m -> 1..n] :
            /\ \A i, j \in 1..m : i < j => r[i] # r[j] /\ score(r[i]) >= score(r[j])
            /\ \A p \in 1..n : (\A i \in 1..m : r[i] # p) =>
                                   \A i \in 1..m : score(r[i]) >= score(p)}

\* chunk_id_map.get(idx): the entry inserted last among those with this index_id
ChunkIdMapGet(meta, idx) ==
    LET cands == {c \in DOMAIN meta : meta[c].index_id = idx}
    IN  IF cands = {} THEN <<>>
        ELSE << CHOOSE c \in cands : \A o \in cands : meta[o].rank <= meta[c].rank >>

\* the result loop of VectorStore.query over the FAISS ids r
RECURSIVE MapResults(_, _, _, _)
MapResults(store, query_vector, r, i) ==
    IF i > Len(r) THEN <<>>
    ELSE LET chunk_id == ChunkIdMapGet(store.chunk_metadata, r[i] - 1)
         IN  (IF chunk_id = <<>> THEN <<>>
              ELSE << [chunk_id |-> chunk_id[1],
                       score |-> Dot(store.index[r[i]], query_vector)] >>)
             \o MapResults(store, query_vector, r, i + 1)

\* VectorStore.query: the results it may return
VectorStoreQuery(store, query_input, k) ==
    IF Len(store.index) = 0 THEN { <<>> }
    ELSE LET query_vector == NormalizeVector(query_input)
         IN  {MapResults(store, query_vector, r, 1) :
                 r \in SearchResults(store.index, query_vector, k)}

\* VectorStore.delete_chunk: [ok, store]
DeleteChunk(store, chunk_id) ==
    IF chunk_id \in DOMAIN store.chunk_metadata
    THEN [ok |-> TRUE, store |-> [store EXCEPT !.chunk_metadata[chunk_id].deleted = TRUE]]
    ELSE [ok |-> FALSE, store |-> store]

\* VectorStore.get_stats
GetStats(store) ==
    [total_vectors |-> Len(store.index), dimension |-> Dimension,
     current_version |-> store.current_version,
     metadata_count |-> Cardinality(DOMAIN store.chunk_metadata)]

(***************************************************************************)
(* IngestionLedger.  docs is the documents table (NoDoc: no row), chunkRows *)
(* the chunks table keyed by chunk_id.  An error message is <<>> (NULL) or *)
(* <<prefix, cause>>.                                                      *)
(***************************************************************************)
NoError == <<>>

NoDoc == [status |-> "absent", content_hash |-> "", version |-> 0, chunks_count |-> 0,
          embedding_model |-> "", error_message |-> NoError]

\* the INSERT of add_document: status and version take the column defaults
InsertDocument(content_hash) ==
    [status |-> "pending", content_hash |-> content_hash, version |-> 1,
     chunks_count |-> 0, embedding_model |-> "", error_message |-> NoError]

\* mutants of the UPDATE: the version starts over; the status is kept
UpdateDocument_Replace(row, content_hash) ==
    [row EXCEPT !.content_hash = content_hash, !.version = 1, !.status = "pending"]

UpdateDocument_KeepStatus(row, content_hash) ==
    [row EXCEPT !.content_hash = content_hash, !.version = @ + 1]

\* the UPDATE of add_document
UpdateDocument(row, content_hash) ==
    [row EXCEPT !.content_hash = content_hash, !.version = @ + 1, !.status = "pending"]

\* IngestionLedger.update_status: an UPDATE ... WHERE doc_id = ?
UpdateStatus(d, doc_id, status, error_message) ==
    IF d[doc_id].status = "absent" THEN d
    ELSE [d EXCEPT ![doc_id].status = status, ![doc_id].error_message = error_message]

\* the INSERT loop of add_chunks from item i on; raised on a chunk_id that has a row
RECURSIVE InsertChunks(_, _, _, _)
InsertChunks(rows, doc_id, chunks, i) ==
    IF i > Len(chunks) THEN [raised |-> FALSE, rows |-> rows]
    ELSE IF chunks[i].chunk_id \in DOMAIN rows THEN [raised |-> TRUE, rows |-> rows]
    ELSE InsertChunks([c \in DOMAIN rows \cup {chunks[i].chunk_id} |->
                          IF c = chunks[i].chunk_id
                          THEN [doc_id |-> doc_id, chunk_order |-> chunks[i].metadata.order,
                                is_embedded |-> FALSE, embedding_hash |-> ""]
                          ELSE rows[c]],
                      doc_id, chunks, i + 1)

\* IngestionLedger.add_chunks, one transaction: [raised, docs, rows]
AddChunks(d, rows, doc_id, chunks) ==
    LET kept == {c \in DOMAIN rows : rows[c].doc_id # doc_id}
        ins == InsertChunks([c \in kept |-> rows[c]], doc_id, chunks, 1)
    IN  IF ins.raised THEN [raised |-> TRUE, docs |-> d, rows |-> rows]
        ELSE [raised |-> FALSE,
              docs |-> IF d[doc_id].status = "absent" THEN d
                       ELSE [d EXCEPT ![doc_id].chunks_count = Len(chunks)],
              rows |-> ins.rows]

\* IngestionLedger.mark_chunks_embedded: [docs, rows]
MarkChunksEmbedded(d, rows, chunk_ids, embedding_model) ==
    LET owners == {rows[c].doc_id : c \in DOMAIN rows \cap chunk_ids}
    IN  [rows |-> [c \in DOMAIN rows |->
                      IF c \in chunk_ids
                      THEN [rows[c] EXCEPT !.is_embedded = TRUE,
                                           !.embedding_hash = embedding_model]
                      ELSE rows[c]],
         docs |-> [x \in DOMAIN d |->
                      IF x \in owners /\ d[x].status # "absent"
                      THEN [d[x] EXCEPT !.embedding_model = embedding_model]
                      ELSE d[x]]]

(***************************************************************************)
(* State.                                                                  *)
(***************************************************************************)
VARIABLES
    docs,       \* ledger: documents table
    chunkRows,  \* ledger: chunks table
    ledgerUp,   \* FALSE while every ledger statement raises sqlite3.OperationalError
    cache,      \* embedding cache: cache_key -> row [model, vector_data]
    disk,       \* index directory: index.faiss, metadata.pkl, version.txt
    vs,         \* VectorStore instances: the service's and each pipeline's
    clock,      \* wall clock, seconds
    pc,         \* where each worker is in ingest_document / process_document
    call,       \* the arguments of each worker's call, and what it found at entry
    loc,        \* each worker's locals
    result,     \* what each worker's call returned
    ncalls,     \* operations started
    nfaults,    \* ledger outages so far
    last,       \* the last direct VectorStore operation and what it returned
    files,      \* shared store: vector_store.faiss, vector_store.json, vector_store.lock
    flock,      \* shared store: the processes holding the file lock
    proc,       \* shared store: each process's call of add or query
    gen,        \* the frame of a chunk_text generator being iterated
    token_manager,  \* teams_cli.auth.token_manager: _cached_token, _account_name
    env,        \* outside the teams-cli process: the wall clock and the keyring entry
    client      \* a GraphClient and the request it is serving

vars == <<docs, chunkRows, ledgerUp, cache, disk, vs, clock, pc, call, loc, result,
          ncalls, nfaults, last,
          files, flock, proc, gen, token_manager, env, client>>

ledger == <<docs, chunkRows>>
store == <<disk, vs>>
sharedStore == <<files, flock, proc>>
graph == <<token_manager, env, client>>

StoreIds == Workers \cup {"svc"}

NoCall == [doc |-> "", hash |-> "", prior |-> NoDoc, vecBefore |-> 0]
NoLoc == [existing |-> "", emb |-> <<>>, reg |-> <<>>, bad |-> FALSE, cause |-> "",
          index_version |-> 0]
NoResult == [status |-> "", error |-> NoError, chunks_processed |-> 0]
NoLast == [op |-> "", store |-> "", arg |-> <<>>, out |-> <<>>, before |-> <<>>]

\* None, as a token
NoToken == <<>>

\* TokenManager() as the module creates it
NewTokenManager == [cached_token |-> NoToken, account_name |-> ""]

\* GraphClient() and no request made
NewClient == [auth_retry_attempted |-> FALSE, pc |-> "idle", retry_count |-> 0,
              fetched |-> 0, responses |-> <<>>, outcome |-> "", message |-> "",
              body |-> <<>>, nrequests |-> 0]

\* no chunk_text generator has been created
NoGen == [pc |-> "idle", self |-> <<>>, words |-> <<>>, start_idx |-> 0, chunk_order |-> 0,
          out |-> <<>>]

\* the processes that share the store of core/vector_store.py
Procs == {"p1", "p2", "p3"}

\* DATA_PATH before any call: no index, no texts, no lock file
NoFiles == [index_exists |-> FALSE, index |-> <<>>, texts_exists |-> FALSE, texts |-> <<>>,
            lock_exists |-> FALSE]

\* no process holds the lock exclusively (ex) or shared (sh)
NoLocks == [ex |-> {}, sh |-> {}]

\* a process outside add and query; has_index: the index it loaded is not None;
\* raised: the exception that left the call, if any
NoProc == [pc |-> "idle", op |-> "", arg |-> <<>>, has_index |-> FALSE, index |-> <<>>,
           texts |-> <<>>, out |-> <<>>, raised |-> ""]

Init ==
    /\ docs = [d \in DocIds |-> NoDoc]
    /\ chunkRows = <<>>
    /\ ledgerUp = TRUE
    /\ cache = <<>>
    /\ disk = NoDisk
    /\ vs = [i \in StoreIds |-> CreateNewIndex(0)]
    /\ clock = 0
    /\ pc = [w \in Workers |-> "idle"]
    /\ call = [w \in Workers |-> NoCall]
    /\ loc = [w \in Workers |-> NoLoc]
    /\ result = [w \in Workers |-> NoResult]
    /\ ncalls = 0
    /\ nfaults = 0
    /\ last = NoLast
    /\ files = NoFiles
    /\ flock = NoLocks
    /\ proc = [p \in Procs |-> NoProc]
    /\ gen = NoGen
    /\ token_manager = NewTokenManager
    /\ env = [now |-> 0, keyring |-> NoToken]
    /\ client = NewClient

(***************************************************************************)
(* RAGService.ingest_document and IngestionPipeline.process_document, one  *)
(* action per access to the ledger, the cache or the index directory.      *)
(***************************************************************************)
Goto(w, p) == pc' = [pc EXCEPT ![w] = p]

\* an exception with message cause, caught by the handler at pc "where"
Raise(w, where, cause) ==
    /\ Goto(w, where)
    /\ loc' = [loc EXCEPT ![w].cause = cause]

\* ingest_document is called
Start(w, doc_id, content_hash, limit) ==
    /\ pc[w] = "idle"
    /\ ncalls < limit
    /\ ncalls' = ncalls + 1
    /\ Goto(w, "check")
    /\ call' = [call EXCEPT ![w] = [doc |-> doc_id, hash |-> content_hash,
                                    prior |-> docs[doc_id],
                                    vecBefore |-> Len(disk.index)]]
    /\ UNCHANGED <<sharedStore, graph, gen, ledger, ledgerUp, cache, store, clock, loc, result, nfaults, last>>

\* mutants of the test: a status no row has; any status
AlreadyProcessed_WrongStatus(doc_status, content_hash) ==
    /\ doc_status.status # "absent"
    /\ doc_status.content_hash = content_hash
    /\ doc_status.status = "complete"

AlreadyProcessed_AnyStatus(doc_status, content_hash) ==
    /\ doc_status.status # "absent"
    /\ doc_status.content_hash = content_hash

\* the test of ingest_document on what get_document_status returned
AlreadyProcessed(doc_status, content_hash) ==
    /\ doc_status.status # "absent"
    /\ doc_status.content_hash = content_hash
    /\ doc_status.status = "completed"

\* get_document_status and the early return
CheckProcessed(w) ==
    /\ pc[w] = "check"
    /\ IF ~ledgerUp
       THEN Raise(w, "except_outer", "ledger") /\ UNCHANGED result
       ELSE IF AlreadyProcessed(docs[call[w].doc], call[w].hash)
       THEN /\ Goto(w, "done")
            /\ result' = [result EXCEPT ![w].status = "already_processed"]
            /\ UNCHANGED loc
       ELSE Goto(w, "reg_select") /\ UNCHANGED <<loc, result>>
    /\ UNCHANGED <<sharedStore, graph, gen, ledger, ledgerUp, cache, store, clock, call, ncalls, nfaults, last>>

\* add_document: the SELECT, and the return False on an equal content_hash
AddDocumentSelect(w) ==
    /\ pc[w] = "reg_select"
    /\ LET existing == docs[call[w].doc]
       IN  IF ~ledgerUp
           THEN Raise(w, "except_outer", "ledger")
           ELSE IF existing.status # "absent" /\ existing.content_hash = call[w].hash
           THEN Goto(w, "construct") /\ UNCHANGED loc
           ELSE /\ Goto(w, "reg_write")
                /\ loc' = [loc EXCEPT ![w].existing =
                              IF existing.status = "absent" THEN "" ELSE "row"]
    /\ UNCHANGED <<sharedStore, graph, gen, ledger, ledgerUp, cache, store, clock, call, result, ncalls, nfaults, last>>

\* add_document: the UPDATE or the INSERT that follows the SELECT, and the commit
AddDocumentWrite(w) ==
    /\ pc[w] = "reg_write"
    /\ LET d == call[w].doc
       IN  IF ~ledgerUp
           THEN Raise(w, "except_outer", "ledger") /\ UNCHANGED docs
           ELSE IF loc[w].existing = "row"
           THEN /\ docs' = [docs EXCEPT ![d] = UpdateDocument(@, call[w].hash)]
                /\ Goto(w, "construct") /\ UNCHANGED loc
           ELSE IF docs[d].status # "absent"
           THEN Raise(w, "except_outer", "unique_doc_id") /\ UNCHANGED docs
           ELSE /\ docs' = [docs EXCEPT ![d] = InsertDocument(call[w].hash)]
                /\ Goto(w, "construct") /\ UNCHANGED loc
    /\ UNCHANGED <<sharedStore, graph, gen, chunkRows, ledgerUp, cache, store, clock, call, result, ncalls, nfaults, last>>

\* IngestionPipeline(...): a new VectorStore that loads the index directory,
\* or (ok = FALSE) a constructor that raises
Construct(w, outcomes) ==
    /\ pc[w] = "construct"
    /\ \E ok \in outcomes :
          IF ok
          THEN /\ vs' = [vs EXCEPT ![w] = LoadOrCreateIndex(disk, clock)]
               /\ Goto(w, "set_processing") /\ UNCHANGED loc
          ELSE Raise(w, "except_outer", "construct") /\ UNCHANGED vs
    /\ UNCHANGED <<sharedStore, graph, gen, ledger, ledgerUp, cache, disk, clock, call, result, ncalls, nfaults, last>>

\* update_status(doc_id, PROCESSING)
SetProcessing(w) ==
    /\ pc[w] = "set_processing"
    /\ IF ~ledgerUp
       THEN Raise(w, "except_inner", "ledger") /\ UNCHANGED docs
       ELSE /\ docs' = UpdateStatus(docs, call[w].doc, "processing", NoError)
            /\ Goto(w, "stages") /\ UNCHANGED loc
    /\ UNCHANGED <<sharedStore, graph, gen, chunkRows, ledgerUp, cache, store, clock, call, result, ncalls, nfaults, last>>

EmbedModes == {"ok", "baddim", "raise"}

\* the ways the embedding cache is unavailable during the embedding loop
CacheDownModes == {"get_raises", "put_raises"}

\* steps 1 to 5: Docling, chunker, the pipeline's Deduper (loc[w].reg is its
\* chunk_registry, empty in a new pipeline), the embedding loop
Stages(w, modes) ==
    /\ pc[w] = "stages"
    /\ \E mode \in modes :
          LET docling == DoclingProcess(call[w].hash)
              chunks == ChunkerProcess(docling.pages)
              reg == DeduperProcess(loc[w].reg, chunks)
              e == EmbedLoop([cache |-> cache, out |-> <<>>, raised |-> FALSE,
                              bad |-> FALSE], reg, call[w].doc, mode)
          IN  IF ~docling.ok
              THEN Raise(w, "except_inner", "extract") /\ UNCHANGED cache
              ELSE IF e.raised
              THEN /\ Raise(w, "except_inner",
                            IF mode \in CacheDownModes THEN "cache" ELSE "embed")
                   /\ cache' = e.cache
              ELSE /\ cache' = e.cache
                   /\ loc' = [loc EXCEPT ![w].emb = e.out, ![w].reg = reg,
                                         ![w].bad = e.bad]
                   /\ Goto(w, "upsert")
    /\ UNCHANGED <<sharedStore, graph, gen, ledger, ledgerUp, store, clock, call, result, ncalls, nfaults, last>>

\* step 6: vector_store.upsert on the pipeline's instance
Upsert(w) ==
    /\ pc[w] = "upsert"
    /\ LET u == VectorStoreUpsert(vs[w], loc[w].emb, clock)
       IN  /\ vs' = [vs EXCEPT ![w] = u.store]
           /\ disk' = IF u.saved THEN SaveIndex(u.store) ELSE disk
           /\ IF u.raised
              THEN Raise(w, "except_inner", "dimension")
              ELSE /\ Goto(w, "add_chunks")
                   /\ loc' = [loc EXCEPT ![w].index_version = u.version]
    /\ UNCHANGED <<sharedStore, graph, gen, ledger, ledgerUp, cache, clock, call, result, ncalls, nfaults, last>>

\* step 7: ledger.add_chunks
AddChunksStep(w) ==
    /\ pc[w] = "add_chunks"
    /\ LET a == AddChunks(docs, chunkRows, call[w].doc, loc[w].emb)
       IN  IF ~ledgerUp
           THEN Raise(w, "except_inner", "ledger") /\ UNCHANGED ledger
           ELSE IF a.raised
           THEN Raise(w, "except_inner", "unique_chunk_id") /\ UNCHANGED ledger
           ELSE /\ docs' = a.docs /\ chunkRows' = a.rows
                /\ Goto(w, "mark") /\ UNCHANGED loc
    /\ UNCHANGED <<sharedStore, graph, gen, ledgerUp, cache, store, clock, call, result, ncalls, nfaults, last>>

\* ledger.mark_chunks_embedded
MarkEmbeddedStep(w) ==
    /\ pc[w] = "mark"
    /\ LET m == MarkChunksEmbedded(docs, chunkRows,
                                   {loc[w].emb[i].chunk_id : i \in 1..Len(loc[w].emb)},
                                   Model)
       IN  IF ~ledgerUp
           THEN Raise(w, "except_inner", "ledger") /\ UNCHANGED ledger
           ELSE /\ docs' = m.docs /\ chunkRows' = m.rows
                /\ Goto(w, "set_completed") /\ UNCHANGED loc
    /\ UNCHANGED <<sharedStore, graph, gen, ledgerUp, cache, store, clock, call, result, ncalls, nfaults, last>>

\* update_status(doc_id, COMPLETED) and the result of process_document
SetCompleted(w) ==
    /\ pc[w] = "set_completed"
    /\ IF ~ledgerUp
       THEN Raise(w, "except_inner", "ledger") /\ UNCHANGED <<docs, result>>
       ELSE /\ docs' = UpdateStatus(docs, call[w].doc, "completed", NoError)
            /\ result' = [result EXCEPT ![w] = [status |-> "completed", error |-> NoError,
                                                chunks_processed |-> Len(loc[w].emb)]]
            /\ Goto(w, "done") /\ UNCHANGED loc
    /\ UNCHANGED <<sharedStore, graph, gen, chunkRows, ledgerUp, cache, store, clock, call, ncalls, nfaults, last>>

\* the except Exception of process_document
PipelineExcept(w) ==
    /\ pc[w] = "except_inner"
    /\ LET error_msg == <<"Pipeline failed", loc[w].cause>>
       IN  IF ~ledgerUp
           THEN Raise(w, "except_outer", "ledger") /\ UNCHANGED <<docs, result>>
           ELSE /\ docs' = UpdateStatus(docs, call[w].doc, "failed", error_msg)
                /\ result' = [result EXCEPT ![w] = [status |-> "failed",
                                                    error |-> error_msg,
                                                    chunks_processed |-> 0]]
                /\ Goto(w, "done") /\ UNCHANGED loc
    /\ UNCHANGED <<sharedStore, graph, gen, chunkRows, ledgerUp, cache, store, clock, call, ncalls, nfaults, last>>

\* the except Exception of ingest_document; an exception of its own
\* update_status leaves ingest_document (status "raised")
ServiceExcept(w) ==
    /\ pc[w] = "except_outer"
    /\ LET error_msg == <<"Document ingestion failed", loc[w].cause>>
       IN  IF ~ledgerUp
           THEN /\ result' = [result EXCEPT ![w] = [status |-> "raised",
                                                    error |-> <<"", "ledger">>,
                                                    chunks_processed |-> 0]]
                /\ UNCHANGED docs
           ELSE /\ docs' = UpdateStatus(docs, call[w].doc, "failed", error_msg)
                /\ result' = [result EXCEPT ![w] = [status |-> "failed",
                                                    error |-> error_msg,
                                                    chunks_processed |-> 0]]
    /\ Goto(w, "done")
    /\ UNCHANGED <<sharedStore, graph, gen, chunkRows, ledgerUp, cache, store, clock, call, loc, ncalls, nfaults, last>>

\* the caller has the result; the pipeline object is dropped
Return(w) ==
    /\ pc[w] = "done"
    /\ Goto(w, "idle")
    /\ call' = [call EXCEPT ![w] = NoCall]
    /\ loc' = [loc EXCEPT ![w] = NoLoc]
    /\ result' = [result EXCEPT ![w] = NoResult]
    /\ vs' = [vs EXCEPT ![w] = CreateNewIndex(0)]
    /\ UNCHANGED <<sharedStore, graph, gen, ledger, ledgerUp, cache, disk, clock, ncalls, nfaults, last>>

\* what an abort of the call leaves of the ledger: no handler runs
AbortLedger(d, w) == d

\* the call is aborted (the process is killed, a BaseException unwinds it)
Abort(w) ==
    /\ pc[w] \notin {"idle", "done"}
    /\ Goto(w, "idle")
    /\ docs' = AbortLedger(docs, w)
    /\ call' = [call EXCEPT ![w] = NoCall]
    /\ loc' = [loc EXCEPT ![w] = NoLoc]
    /\ result' = [result EXCEPT ![w] = NoResult]
    /\ vs' = [vs EXCEPT ![w] = CreateNewIndex(0)]
    /\ UNCHANGED <<sharedStore, graph, gen, chunkRows, ledgerUp, cache, disk, clock, ncalls, nfaults, last>>

Step(w, modes, outcomes) ==
    \/ CheckProcessed(w)
    \/ AddDocumentSelect(w)
    \/ AddDocumentWrite(w)
    \/ Construct(w, outcomes)
    \/ SetProcessing(w)
    \/ Stages(w, modes)
    \/ Upsert(w)
    \/ AddChunksStep(w)
    \/ MarkEmbeddedStep(w)
    \/ SetCompleted(w)
    \/ PipelineExcept(w)
    \/ ServiceExcept(w)
    \/ Return(w)

(***************************************************************************)
(* Spec: two workers call ingest_document concurrently on the text files,  *)
(* with a working embedder and pipeline constructor; no call is aborted.   *)
(***************************************************************************)
TextHashes == {h \in Hashes : FileIsText(h)}

Next ==
    \E w \in Workers :
        \/ \E d \in DocIds, h \in TextHashes : Start(w, d, h, MaxConcurrentCalls)
        \/ Step(w, {"ok"}, {TRUE})

Spec == Init /\ [][Next]_vars

(***************************************************************************)
(* SpecSeq: one call at a time, on any file, with any embedder and a       *)
(* pipeline constructor that may raise; a call may be aborted.             *)
(***************************************************************************)
NextSeq ==
    \/ \E d \in DocIds, h \in Hashes : Start("w1", d, h, MaxCalls)
    \/ Step("w1", EmbedModes, BOOLEAN)
    \/ Abort("w1")

SpecSeq == Init /\ [][NextSeq]_vars

(***************************************************************************)
(* SpecFault: one call at a time, never aborted, with a ledger database   *)
(* that may become unavailable (every statement raises                     *)
(* sqlite3.OperationalError) and recover.                                  *)
(***************************************************************************)
LedgerFails ==
    /\ ledgerUp
    /\ nfaults < MaxFaults
    /\ ledgerUp' = FALSE
    /\ nfaults' = nfaults + 1
    /\ UNCHANGED <<sharedStore, graph, gen, ledger, cache, store, clock, pc, call, loc, result, ncalls, last>>

LedgerRecovers ==
    /\ ~ledgerUp
    /\ ledgerUp' = TRUE
    /\ UNCHANGED <<sharedStore, graph, gen, ledger, cache, store, clock, pc, call, loc, result, ncalls, nfaults,
                   last>>

NextFault ==
    \/ \E d \in DocIds, h \in Hashes : Start("w1", d, h, MaxCalls)
    \/ Step("w1", EmbedModes, BOOLEAN)
    \/ LedgerFails
    \/ LedgerRecovers

SpecFault == Init /\ [][NextFault]_vars

(***************************************************************************)
(* SpecStore: a caller works on one VectorStore instance directly: upsert  *)
(* of the batch a pipeline makes of a file, query, delete_chunk, and a new *)
(* instance over the index directory (a restart); the wall clock advances. *)
(***************************************************************************)
\* the batch process_document hands to upsert for the file h of document doc_id
BatchOf(h, doc_id) ==
    EmbedLoop([cache |-> <<>>, out |-> <<>>, raised |-> FALSE, bad |-> FALSE],
              DeduperProcess(<<>>, ChunkerProcess(DoclingProcess(h).pages)),
              doc_id, "ok").out

StoreChunkIds ==
    UNION {{BatchOf(h, "d1")[i].chunk_id : i \in 1..Len(BatchOf(h, "d1"))} : h \in TextHashes}

QueryVectors == {[i \in 1..Dimension |-> IF i = j THEN 1 ELSE 0] : j \in 1..Dimension}

StoreOp(s, op, arg, out) ==
    /\ ncalls < MaxStoreOps
    /\ ncalls' = ncalls + 1
    /\ last' = [op |-> op, store |-> s, arg |-> arg, out |-> out, before |-> vs[s]]

\* VectorStore.upsert, with its _save_index
StoreUpsert(s, vectors) ==
    LET u == VectorStoreUpsert(vs[s], vectors, clock)
    IN  /\ StoreOp(s, "upsert", vectors, u.version)
        /\ vs' = [vs EXCEPT ![s] = u.store]
        /\ disk' = IF u.saved THEN SaveIndex(u.store) ELSE disk
        /\ UNCHANGED <<sharedStore, graph, gen, ledger, ledgerUp, cache, clock, pc, call, loc, result, nfaults>>

\* VectorStore.query
StoreQuery(s, query_input, k) ==
    /\ \E out \in VectorStoreQuery(vs[s], query_input, k) :
          StoreOp(s, "query", <<query_input, k>>, out)
    /\ UNCHANGED <<sharedStore, graph, gen, ledger, ledgerUp, cache, store, clock, pc, call, loc, result, nfaults>>

\* VectorStore.delete_chunk
StoreDelete(s, chunk_id) ==
    LET d == DeleteChunk(vs[s], chunk_id)
    IN  /\ StoreOp(s, "delete", chunk_id, d.ok)
        /\ vs' = [vs EXCEPT ![s] = d.store]
        /\ UNCHANGED <<sharedStore, graph, gen, ledger, ledgerUp, cache, disk, clock, pc, call, loc, result, nfaults>>

\* VectorStore(...): the process restarts and loads the index directory
StoreLoad(s) ==
    /\ StoreOp(s, "load", <<>>, <<>>)
    /\ vs' = [vs EXCEPT ![s] = LoadOrCreateIndex(disk, clock)]
    /\ UNCHANGED <<sharedStore, graph, gen, ledger, ledgerUp, cache, disk, clock, pc, call, loc, result, nfaults>>

\* a second passes
Tick ==
    /\ clock < MaxClock
    /\ clock' = clock + 1
    /\ UNCHANGED <<sharedStore, graph, gen, ledger, ledgerUp, cache, store, pc, call, loc, result, ncalls, nfaults,
                   last>>

NextStore ==
    \/ \E h \in TextHashes : StoreUpsert("svc", BatchOf(h, "d1"))
    \/ StoreUpsert("svc", <<>>)
    \/ \E q \in QueryVectors, k \in 1..MaxK : StoreQuery("svc", q, k)
    \/ \E c \in StoreChunkIds : StoreDelete("svc", c)
    \/ StoreLoad("svc")
    \/ Tick

SpecStore == Init /\ [][NextStore]_vars

(***************************************************************************)
(* SpecServe: calls of ingest_document, one after the other, on the text   *)
(* files, while the service answers queries and get_index_info from the    *)
(* VectorStore instance it built in RAGService.__init__; the service may   *)
(* restart.                                                                *)
(***************************************************************************)
\* VectorStore.get_stats
StoreStats(s) ==
    /\ StoreOp(s, "stats", <<>>, GetStats(vs[s]))
    /\ UNCHANGED <<sharedStore, graph, gen, ledger, ledgerUp, cache, store, clock, pc, call, loc, result, nfaults>>

\* RAGService.query: self.vector_store.query
ServiceQuery == \E q \in QueryVectors, k \in 1..MaxK : StoreQuery("svc", q, k)

\* RAGService.get_index_info: self.vector_store.get_stats
ServiceStats == StoreStats("svc")

NextServe ==
    \/ \E d \in DocIds, h \in TextHashes : Start("w1", d, h, MaxConcurrentCalls)
    \/ Step("w1", {"ok"}, BOOLEAN)
    \/ ServiceQuery
    \/ ServiceStats
    \/ StoreLoad("svc")

SpecServe == Init /\ [][NextServe]_vars

(***************************************************************************)
(* SpecShared: processes call add and query of core/vector_store.py on one *)
(* DATA_PATH.  The index file holds, for each vector, the text it embeds.  *)
(* One action per system call: open, flock, the two reads of _load_store,  *)
(* the two writes of add, the unlock.                                      *)
(***************************************************************************)
ingest == <<docs, chunkRows, ledgerUp, cache, disk, vs, clock, pc, call, loc, result,
            nfaults, last>>

\* fcntl.flock(LOCK_EX) returns: no other open file holds the lock
CanLockExclusive(held, p) == held.ex \ {p} = {} /\ held.sh \ {p} = {}

\* mutant: a shared lock that waits for nobody
CanLockShared_Always(held, p) == TRUE

\* fcntl.flock(LOCK_SH) returns: no other open file holds the lock exclusively
CanLockShared(held, p) == held.ex \ {p} = {}

SetProc(p, r) == proc' = [proc EXCEPT ![p] = r]

\* add(texts) or query(q, k) is called
SharedCall(p, op, arg) ==
    /\ proc[p].pc = "idle"
    /\ ncalls < MaxSharedOps
    /\ ncalls' = ncalls + 1
    /\ SetProc(p, [NoProc EXCEPT !.pc = IF op = "add" THEN "add_open" ELSE "query_open",
                                 !.op = op, !.arg = arg])
    /\ UNCHANGED <<ingest, graph, gen, files, flock>>

\* add: open(LOCK_PATH, "w") creates the lock file
AddOpen(p) ==
    /\ proc[p].pc = "add_open"
    /\ files' = [files EXCEPT !.lock_exists = TRUE]
    /\ SetProc(p, [proc[p] EXCEPT !.pc = "add_lock"])
    /\ UNCHANGED <<ingest, graph, gen, ncalls, flock>>

\* add: fcntl.flock(lock_file, LOCK_EX)
AddLock(p) ==
    /\ proc[p].pc = "add_lock"
    /\ CanLockExclusive(flock, p)
    /\ flock' = [flock EXCEPT !.ex = @ \cup {p}]
    /\ SetProc(p, [proc[p] EXCEPT !.pc = "add_load_index"])
    /\ UNCHANGED <<ingest, graph, gen, ncalls, files>>

\* query: open(LOCK_PATH, "r") raises FileNotFoundError without a lock file
QueryOpen(p) ==
    /\ proc[p].pc = "query_open"
    /\ IF files.lock_exists
       THEN SetProc(p, [proc[p] EXCEPT !.pc = "query_lock"])
       ELSE SetProc(p, [proc[p] EXCEPT !.pc = "done", !.raised = "FileNotFoundError"])
    /\ UNCHANGED <<ingest, graph, gen, ncalls, files, flock>>

\* query: fcntl.flock(lock_file, LOCK_SH)
QueryLock(p) ==
    /\ proc[p].pc = "query_lock"
    /\ CanLockShared(flock, p)
    /\ flock' = [flock EXCEPT !.sh = @ \cup {p}]
    /\ SetProc(p, [proc[p] EXCEPT !.pc = "query_load_index"])
    /\ UNCHANGED <<ingest, graph, gen, ncalls, files>>

\* _load_store: faiss.read_index if INDEX_PATH exists, else (None, [])
LoadIndex(p) ==
    /\ proc[p].pc \in {"add_load_index", "query_load_index"}
    /\ IF files.index_exists
       THEN SetProc(p, [proc[p] EXCEPT !.has_index = TRUE, !.index = files.index,
                                       !.pc = IF proc[p].op = "add" THEN "add_load_texts"
                                              ELSE "query_load_texts"])
       ELSE SetProc(p, [proc[p] EXCEPT !.pc = IF proc[p].op = "add" THEN "add_write_index"
                                              ELSE "query_none"])
    /\ UNCHANGED <<ingest, graph, gen, ncalls, files, flock>>

\* _load_store: json.load if TEXTS_PATH exists, else []
LoadTexts(p) ==
    /\ proc[p].pc \in {"add_load_texts", "query_load_texts"}
    /\ SetProc(p, [proc[p] EXCEPT !.texts = IF files.texts_exists THEN files.texts ELSE <<>>,
                                  !.pc = IF proc[p].op = "add" THEN "add_write_index"
                                         ELSE "query_search"])
    /\ UNCHANGED <<ingest, graph, gen, ncalls, files, flock>>

\* add: index.add, stored_texts.extend, faiss.write_index
AddWriteIndex(p) ==
    /\ proc[p].pc = "add_write_index"
    /\ files' = [files EXCEPT !.index_exists = TRUE, !.index = proc[p].index \o proc[p].arg]
    /\ SetProc(p, [proc[p] EXCEPT !.has_index = TRUE, !.index = @ \o proc[p].arg,
                                  !.texts = @ \o proc[p].arg, !.pc = "add_write_texts"])
    /\ UNCHANGED <<ingest, graph, gen, ncalls, flock>>

\* add: json.dump(stored_texts)
AddWriteTexts(p) ==
    /\ proc[p].pc = "add_write_texts"
    /\ files' = [files EXCEPT !.texts_exists = TRUE, !.texts = proc[p].texts]
    /\ SetProc(p, [proc[p] EXCEPT !.pc = "add_unlock"])
    /\ UNCHANGED <<ingest, graph, gen, ncalls, flock>>

\* add: fcntl.flock(lock_file, LOCK_UN) and return
AddUnlock(p) ==
    /\ proc[p].pc = "add_unlock"
    /\ flock' = [flock EXCEPT !.ex = @ \ {p}]
    /\ SetProc(p, [proc[p] EXCEPT !.pc = "done"])
    /\ UNCHANGED <<ingest, graph, gen, ncalls, files>>

\* query: index is None: unlock and return []
QueryNone(p) ==
    /\ proc[p].pc = "query_none"
    /\ flock' = [flock EXCEPT !.sh = @ \ {p}]
    /\ SetProc(p, [proc[p] EXCEPT !.pc = "done", !.out = <<>>])
    /\ UNCHANGED <<ingest, graph, gen, ncalls, files>>

\* the ids index.search returns for k on n equidistant vectors: by id, then -1
SearchIds(n, k) == [i \in 1..k |-> IF i <= n THEN i - 1 ELSE -1]

\* texts[i] of Python, i possibly negative
PyItem(texts, i) == IF i >= 0 THEN texts[i + 1] ELSE texts[Len(texts) + i + 1]

\* the result loop of query indexes texts outside its range
ResultsRaise(texts, ntotal, ids) ==
    \E j \in 1..Len(ids) : ids[j] < Len(texts) /\ ids[j] < ntotal /\ ids[j] < -Len(texts)

\* the result loop of query over the ids, from position j on
RECURSIVE SharedResults(_, _, _, _)
SharedResults(texts, ntotal, ids, j) ==
    IF j > Len(ids) THEN <<>>
    ELSE (IF ids[j] < Len(texts) /\ ids[j] < ntotal
          THEN << PyItem(texts, ids[j]) >>
          ELSE <<>>)
         \o SharedResults(texts, ntotal, ids, j + 1)

\* query: index.search, unlock, the result loop
QuerySearch(p) ==
    /\ proc[p].pc = "query_search"
    /\ flock' = [flock EXCEPT !.sh = @ \ {p}]
    /\ LET ids == SearchIds(Len(proc[p].index), proc[p].arg)
       IN  IF ResultsRaise(proc[p].texts, Len(proc[p].index), ids)
           THEN SetProc(p, [proc[p] EXCEPT !.pc = "done", !.raised = "IndexError"])
           ELSE SetProc(p, [proc[p] EXCEPT
                              !.pc = "done",
                              !.out = SharedResults(proc[p].texts, Len(proc[p].index),
                                                    ids, 1)])
    /\ UNCHANGED <<ingest, graph, gen, ncalls, files>>

\* the caller has what add or query returned
SharedReturn(p) ==
    /\ proc[p].pc = "done"
    /\ SetProc(p, NoProc)
    /\ UNCHANGED <<ingest, graph, gen, ncalls, files, flock>>

\* the batch of one text a caller adds: no two calls add the same text
Batch(p) == << <<p, ncalls>> >>

NextShared ==
    \E p \in Procs :
        \/ SharedCall(p, "add", Batch(p))
        \/ \E k \in 1..MaxK : SharedCall(p, "query", k)
        \/ AddOpen(p) \/ AddLock(p)
        \/ QueryOpen(p) \/ QueryLock(p)
        \/ LoadIndex(p) \/ LoadTexts(p)
        \/ AddWriteIndex(p) \/ AddWriteTexts(p) \/ AddUnlock(p)
        \/ QueryNone(p) \/ QuerySearch(p)
        \/ SharedReturn(p)

SpecShared == Init /\ [][NextShared]_vars

(***************************************************************************)
(* IngestionPipeline used directly, as its main() does: a script builds a  *)
(* pipeline and calls process_document on it, once or several times,       *)
(* without ingest_document and its add_document in front.  At pc "ready"   *)
(* the pipeline exists and no call is running; it keeps its Deduper and    *)
(* its VectorStore from call to call.                                      *)
(***************************************************************************)
\* pipeline = IngestionPipeline()
NewPipeline(w) ==
    /\ pc[w] = "idle"
    /\ vs' = [vs EXCEPT ![w] = LoadOrCreateIndex(disk, clock)]
    /\ Goto(w, "ready")
    /\ UNCHANGED <<sharedStore, graph, gen, ledger, ledgerUp, cache, disk, clock, call, loc,
                   result, ncalls, nfaults, last>>

\* pipeline.process_document(file_path, doc_id, ...) is called
ProcessDocument(w, doc_id, content_hash, limit) ==
    /\ pc[w] = "ready"
    /\ ncalls < limit
    /\ ncalls' = ncalls + 1
    /\ Goto(w, "set_processing")
    /\ call' = [call EXCEPT ![w] = [doc |-> doc_id, hash |-> content_hash,
                                    prior |-> docs[doc_id],
                                    vecBefore |-> Len(disk.index)]]
    /\ UNCHANGED <<sharedStore, graph, gen, ledger, ledgerUp, cache, store, clock, loc, result,
                   nfaults, last>>

\* process_document has returned and the script keeps the pipeline
ProcessReturn(w) ==
    /\ pc[w] = "done"
    /\ Goto(w, "ready")
    /\ call' = [call EXCEPT ![w] = NoCall]
    /\ loc' = [loc EXCEPT ![w] = [NoLoc EXCEPT !.reg = loc[w].reg]]
    /\ result' = [result EXCEPT ![w] = NoResult]
    /\ UNCHANGED <<sharedStore, graph, gen, ledger, ledgerUp, cache, store, clock, ncalls,
                   nfaults, last>>

NextPipeline ==
    \/ NewPipeline("w1")
    \/ \E d \in DocIds, h \in TextHashes : ProcessDocument("w1", d, h, MaxCalls)
    \/ SetProcessing("w1")
    \/ Stages("w1", {"ok"})
    \/ Upsert("w1")
    \/ AddChunksStep("w1")
    \/ MarkEmbeddedStep("w1")
    \/ SetCompleted("w1")
    \/ PipelineExcept("w1")
    \/ ProcessReturn("w1")
    \/ Return("w1")

SpecPipeline == Init /\ [][NextPipeline]_vars

(***************************************************************************)
(* Ingestion with an embedding cache that may be unavailable: one caller,  *)
(* text files, and in each call the cache works or one of its two calls    *)
(* raises.                                                                 *)
(***************************************************************************)
NextCacheDown ==
    \/ \E d \in DocIds, h \in TextHashes : Start("w1", d, h, MaxConcurrentCalls)
    \/ Step("w1", {"ok"} \cup CacheDownModes, BOOLEAN)

SpecCacheDown == Init /\ [][NextCacheDown]_vars

(***************************************************************************)
(* Ingestion of files in which a passage repeats: one caller, the file h2  *)
(* and the file h4, whose first windows hold the same words.               *)
(***************************************************************************)
RepeatingHashes == {"h2", "h4"}

NextRepeat ==
    \/ \E d \in DocIds, h \in RepeatingHashes : Start("w1", d, h, MaxConcurrentCalls)
    \/ Step("w1", {"ok"}, BOOLEAN)

SpecRepeat == Init /\ [][NextRepeat]_vars

(***************************************************************************)
(* EmbeddingCache on its own: any sequence of put, get and clear.  Texts   *)
(* and model names are strings given as sequences of pieces; "llama3" and  *)
(* "llama3:8b" are two model names, "8b:hello" and "hello" two texts.      *)
(***************************************************************************)
CacheTexts == {<<"hello">>, <<"8b", ":", "hello">>}

CacheModels == {<<"llama3">>, <<"llama3", ":", "8b">>}

CacheVectors == {Embed(<<"a">>), Embed(<<"b">>)}

Put(text, model, vector) ==
    /\ cache' = CachePut(cache, text, model, vector)
    /\ last' = [op |-> "put", store |-> "cache", arg |-> <<text, model, vector>>,
                out |-> ComputeCacheKey(text, model), before |-> cache]
    /\ UNCHANGED <<sharedStore, graph, gen, ledger, ledgerUp, store, clock, pc, call, loc, result,
                   ncalls, nfaults>>

Get(text, model) ==
    /\ last' = [op |-> "get", store |-> "cache", arg |-> <<text, model>>,
                out |-> CacheGet(cache, text, model), before |-> cache]
    /\ UNCHANGED <<sharedStore, graph, gen, ledger, ledgerUp, cache, store, clock, pc, call, loc, result,
                   ncalls, nfaults>>

Clear(model) ==
    /\ cache' = CacheClear(cache, model)
    /\ last' = [op |-> "clear", store |-> "cache", arg |-> <<model>>,
                out |-> <<>>, before |-> cache]
    /\ UNCHANGED <<sharedStore, graph, gen, ledger, ledgerUp, store, clock, pc, call, loc, result,
                   ncalls, nfaults>>

NextCache ==
    \/ \E t \in CacheTexts, m \in CacheModels, v \in CacheVectors : Put(t, m, v)
    \/ \E t \in CacheTexts, m \in CacheModels : Get(t, m)
    \/ \E m \in CacheModels \cup {<<>>} : Clear(m)

SpecCache == Init /\ [][NextCache]_vars

(***************************************************************************)
(* Chunker.chunk_text on its own: a Chunker of any small chunk_size and    *)
(* chunk_overlap, or the default one, applied to a text of n words.  Word  *)
(* i of the text is written i, so that a chunk shows which words it holds. *)
(***************************************************************************)
DefaultChunkSize == 512
DefaultChunkOverlap == 50

WordsOf(n) == [i \in 1..n |-> i]

ChunkInputs ==
    {<<n, size, overlap>> : n \in 0..MaxWords, size \in 1..MaxChunkSize,
                            overlap \in 0..(MaxChunkSize - 1)}

ChunkTextCall(n, chunk_size, chunk_overlap) ==
    /\ chunk_overlap < chunk_size
    /\ last' = [op |-> "chunk_text", store |-> "",
                arg |-> <<WordsOf(n), chunk_size, chunk_overlap>>,
                out |-> ChunkText([chunk_size |-> chunk_size,
                                   chunk_overlap |-> chunk_overlap], WordsOf(n), "d1"),
                before |-> <<>>]
    /\ UNCHANGED <<sharedStore, graph, gen, ledger, ledgerUp, cache, store, clock, pc, call, loc, result,
                   ncalls, nfaults>>

NextChunk ==
    \E a \in ChunkInputs \cup {<<ExampleWords, DefaultChunkSize, DefaultChunkOverlap>>} :
        ChunkTextCall(a[1], a[2], a[3])

SpecChunk == Init /\ [][NextChunk]_vars

(***************************************************************************)
(* Chunker.chunk_text as the generator it is: one action creates it and    *)
(* runs it to its first yield or return, one action resumes it to the next *)
(* yield.  Nothing in Chunker relates chunk_overlap to chunk_size, so the  *)
(* overlap ranges over 0..MaxChunkSize for every chunk_size.               *)
(***************************************************************************)
\* words[a:b] of Python, for any integers a and b
PySlice(words, a, b) ==
    LET n == Len(words)
        lo == IF a < 0 THEN (IF a + n < 0 THEN 0 ELSE a + n) ELSE Min(a, n)
        hi == IF b < 0 THEN (IF b + n < 0 THEN 0 ELSE b + n) ELSE Min(b, n)
    IN  SubSeq(words, lo + 1, hi)

\* the generator runs from its creation to the first yield (or the return)
ChunkTextFirst(n, chunk_size, chunk_overlap) ==
    /\ gen.pc \in {"idle", "done"}
    /\ gen' = IF n <= chunk_size
              THEN [pc |-> "done",
                    self |-> [chunk_size |-> chunk_size, chunk_overlap |-> chunk_overlap],
                    words |-> WordsOf(n), start_idx |-> 0, chunk_order |-> 0,
                    out |-> << MkChunk("d1", FALSE, 0, WordsOf(n)) >>]
              ELSE [pc |-> "loop",
                    self |-> [chunk_size |-> chunk_size, chunk_overlap |-> chunk_overlap],
                    words |-> WordsOf(n), start_idx |-> 0, chunk_order |-> 0,
                    out |-> <<>>]
    /\ UNCHANGED <<sharedStore, graph, ledger, ledgerUp, cache, store, clock, pc, call, loc, result,
                   ncalls, nfaults, last>>

\* one turn of while start_idx < len(words): yield the window, then break or
\* move start_idx
ChunkTextResume ==
    /\ gen.pc = "loop"
    /\ gen.chunk_order < MaxYields
    /\ IF ~(gen.start_idx < Len(gen.words))
       THEN gen' = [gen EXCEPT !.pc = "done"]
       ELSE LET end_idx == Min(gen.start_idx + gen.self.chunk_size, Len(gen.words))
                chunk_words == PySlice(gen.words, gen.start_idx, end_idx)
                chunk == MkChunk("d1", TRUE, gen.chunk_order, chunk_words)
            IN  gen' = [gen EXCEPT
                           !.out = Append(@, chunk),
                           !.chunk_order = @ + 1,
                           !.pc = IF end_idx >= Len(gen.words) THEN "done" ELSE "loop",
                           !.start_idx = IF end_idx >= Len(gen.words) THEN @
                                         ELSE NextStart(gen.self, end_idx)]
    /\ UNCHANGED <<sharedStore, graph, ledger, ledgerUp, cache, store, clock, pc, call, loc, result,
                   ncalls, nfaults, last>>

NextChunkLoop ==
    \/ \E n \in 0..MaxWords, chunk_size \in 1..MaxChunkSize, chunk_overlap \in 0..MaxChunkSize :
          ChunkTextFirst(n, chunk_size, chunk_overlap)
    \/ ChunkTextResume

SpecChunkLoop == Init /\ [][NextChunkLoop]_vars

(***************************************************************************)
(* teams_cli.auth.TokenManager.  A token is a record: access_token ("" when *)
(* the key is missing), expires_in (-1 when the key is missing),           *)
(* expires_at (the key _expires_at, 0 when missing) and refresh_token      *)
(* (whether the key is there).  Times are seconds.                         *)
(***************************************************************************)
\* the 5 minute buffer of _is_token_valid
TokenBuffer == 300

\* _is_token_valid: [valid, token], the token with the _expires_at the call caches
IsTokenValid(token, now) ==
    IF token = NoToken \/ token.access_token = ""
    THEN [valid |-> FALSE, token |-> token]
    ELSE IF token.expires_in # -1
    THEN LET expires_at == IF token.expires_at = 0 THEN now + token.expires_in
                           ELSE token.expires_at
         IN  [valid |-> now < expires_at - TokenBuffer,
              token |-> [token EXCEPT !.expires_at = expires_at]]
    ELSE [valid |-> TRUE, token |-> token]

\* what _save_token_to_keyring makes of the token before it stores it
Stamped(token, now) ==
    IF token.expires_in # -1 /\ token.expires_at = 0
    THEN [token EXCEPT !.expires_at = now + token.expires_in]
    ELSE token

\* get_access_token.  config_ok: tenant_id and client_id are set; stored: what
\* _load_token_from_keyring returns; refreshed: what _refresh_token returns for a
\* token that has a refresh_token.  [outcome, token, tm, keyring]
GetAccessToken(tm, config_ok, stored, refreshed, now) ==
    LET cached == IsTokenValid(tm.cached_token, now)
        loaded == IsTokenValid(stored, now)
    IN  IF ~config_ok
        THEN [outcome |-> "AuthenticationError", token |-> NoToken, tm |-> tm,
              keyring |-> stored]
        ELSE IF cached.valid
        THEN [outcome |-> "return", token |-> cached.token,
              tm |-> [tm EXCEPT !.cached_token = cached.token], keyring |-> stored]
        ELSE IF tm.account_name = ""
        THEN \* line 53 reads stored_token, which line 47 never assigned
             [outcome |-> "UnboundLocalError", token |-> NoToken,
              tm |-> [tm EXCEPT !.cached_token = cached.token], keyring |-> stored]
        ELSE IF loaded.valid
        THEN [outcome |-> "return", token |-> loaded.token,
              tm |-> [tm EXCEPT !.cached_token = loaded.token], keyring |-> stored]
        ELSE IF stored # NoToken /\ stored.refresh_token /\ refreshed # NoToken
        THEN [outcome |-> "return", token |-> Stamped(refreshed, now),
              tm |-> [tm EXCEPT !.cached_token = Stamped(refreshed, now)],
              keyring |-> Stamped(refreshed, now)]
        ELSE [outcome |-> "AuthenticationError", token |-> NoToken,
              tm |-> [tm EXCEPT !.cached_token = cached.token], keyring |-> stored]

\* what MSAL answers to the device flow or to acquire_token_silent
IssuedTokens ==
    {[access_token |-> "at1", expires_in |-> 3600, expires_at |-> 0, refresh_token |-> r] :
        r \in BOOLEAN}

\* what the keyring entry may hold when something else wrote it
KeyringTokens ==
    {NoToken} \cup
    {[access_token |-> a, expires_in |-> e, expires_at |-> 0, refresh_token |-> TRUE] :
        a \in {"", "at2"}, e \in {-1, 3600}}

Times == {0, 1000, 3400, 4000}

\* login(): the device flow answers token_response, which is cached and saved
Login(token_response, saved) ==
    /\ token_manager' = [cached_token |-> Stamped(token_response, env.now),
                         account_name |-> "upn"]
    /\ env' = IF saved THEN [env EXCEPT !.keyring = Stamped(token_response, env.now)]
              ELSE env
    /\ last' = [op |-> "login", store |-> "", arg |-> <<token_response>>, out |-> <<>>,
                before |-> token_manager]
    /\ UNCHANGED <<sharedStore, gen, client, ledger, ledgerUp, cache, store, clock, pc, call,
                   loc, result, ncalls, nfaults>>

\* the keyring entry is deleted or rewritten from outside the process
KeyringWrite(entry) ==
    /\ env.keyring # entry
    /\ env' = [env EXCEPT !.keyring = entry]
    /\ UNCHANGED <<sharedStore, gen, token_manager, client, ledger, ledgerUp, cache, store,
                   clock, pc, call, loc, result, ncalls, nfaults, last>>

\* time passes
Advance(t) ==
    /\ t > env.now
    /\ env' = [env EXCEPT !.now = t]
    /\ UNCHANGED <<sharedStore, gen, token_manager, client, ledger, ledgerUp, cache, store,
                   clock, pc, call, loc, result, ncalls, nfaults, last>>

GetAccessTokenCall(config_ok, refreshed) ==
    /\ LET g == GetAccessToken(token_manager, config_ok, env.keyring, refreshed, env.now)
       IN  /\ token_manager' = g.tm
           /\ env' = [env EXCEPT !.keyring = g.keyring]
           /\ last' = [op |-> "get_access_token", store |-> "", arg |-> <<config_ok>>,
                       out |-> [outcome |-> g.outcome, token |-> g.token],
                       before |-> token_manager]
    /\ UNCHANGED <<sharedStore, gen, client, ledger, ledgerUp, cache, store, clock, pc, call,
                   loc, result, ncalls, nfaults>>

NextToken ==
    \/ \E t \in IssuedTokens, saved \in BOOLEAN : Login(t, saved)
    \/ \E k \in KeyringTokens : KeyringWrite(k)
    \/ \E t \in Times : Advance(t)
    \/ \E config_ok \in BOOLEAN, r \in IssuedTokens \cup {NoToken} :
          GetAccessTokenCall(config_ok, r)

SpecToken == Init /\ [][NextToken]_vars

(***************************************************************************)
(* teams_cli.graph.GraphClient.  A request is served by                    *)
(* _request_with_retry, which calls itself for every retry: one action for *)
(* the token it fetches first, one for the response (or the exception) of  *)
(* session.request and what the code does with it.  client.fetched counts  *)
(* the calls of get_access_token and client.responses lists what           *)
(* session.request gave, both for the request being served.                *)
(***************************************************************************)
max_retries == 5

\* the status codes, and the two kinds of requests.exceptions.RequestException:
\* one whose text holds "timeout", "connection" or "network", one without
Success == {"200", "201", "204"}
Responses == Success \cup {"401", "429", "500", "404", "timeout", "ssl"}

\* response.json() if response.content else {}
ResponseBody(r) == IF r = "204" THEN <<>> ELSE <<"json", r>>

\* a retry test that lets one retry too many through
CanRetry_Inclusive(retry_count) == retry_count <= max_retries

\* retry_count < max_retries
CanRetry(retry_count) == retry_count < max_retries

\* GraphClient.request
Request ==
    /\ client.pc \in {"idle", "done"}
    /\ client.nrequests < MaxRequests
    /\ client' = [client EXCEPT !.pc = "token", !.retry_count = 0, !.fetched = 0,
                                !.responses = <<>>, !.outcome = "", !.message = "",
                                !.body = <<>>, !.nrequests = @ + 1]
    /\ UNCHANGED <<sharedStore, gen, token_manager, env, ledger, ledgerUp, cache, store,
                   clock, pc, call, loc, result, ncalls, nfaults, last>>

\* a call that ends by raising
ClientRaise(c, outcome, message) ==
    [c EXCEPT !.pc = "done", !.outcome = outcome, !.message = message]

\* the first try block: get_access_token and the Authorization header
AcquireToken(refreshed) ==
    /\ client.pc = "token"
    /\ LET g == GetAccessToken(token_manager, TRUE, env.keyring, refreshed, env.now)
           c == [client EXCEPT !.fetched = @ + 1]
       IN  /\ token_manager' = g.tm
           /\ env' = [env EXCEPT !.keyring = g.keyring]
           /\ client' =
                 IF g.outcome = "return" THEN [c EXCEPT !.pc = "send"]
                 ELSE IF g.outcome = "AuthenticationError" /\ ~c.auth_retry_attempted
                 THEN ClientRaise([c EXCEPT !.auth_retry_attempted = TRUE], "GraphAPIError",
                                  "Authentication failed. Please run 'teams-cli login' first.")
                 ELSE ClientRaise(c, g.outcome, "")
    /\ UNCHANGED <<sharedStore, gen, ledger, ledgerUp, cache, store, clock, pc, call, loc,
                   result, ncalls, nfaults, last>>

\* the retry: _request_with_retry(method, url, json_data, params, retry_count)
ClientRetry(c, retry_count) == [c EXCEPT !.pc = "token", !.retry_count = retry_count]

\* the second try block: session.request answers r
Respond(r) ==
    /\ client.pc = "send"
    /\ LET c == [client EXCEPT !.responses = Append(@, r)]
       IN  CASE r \in Success ->
                  /\ client' = [c EXCEPT !.pc = "done", !.outcome = "return",
                                         !.body = ResponseBody(r)]
                  /\ UNCHANGED token_manager
             [] r = "401" ->
                  IF ~c.auth_retry_attempted /\ c.retry_count = 0
                  THEN /\ client' = ClientRetry([c EXCEPT !.auth_retry_attempted = TRUE], 1)
                       /\ token_manager' = [token_manager EXCEPT !.cached_token = NoToken]
                  ELSE /\ client' = ClientRaise(c, "GraphAPIError",
                                  "Authentication failed. Please run 'teams-cli login' again.")
                       /\ UNCHANGED token_manager
             [] r = "429" ->
                  /\ client' = IF CanRetry(c.retry_count)
                               THEN ClientRetry(c, c.retry_count + 1)
                               ELSE ClientRaise(c, "GraphAPIError",
                                                "Rate limit exceeded. Max retries reached.")
                  /\ UNCHANGED token_manager
             [] r = "500" ->
                  /\ client' = IF CanRetry(c.retry_count)
                               THEN ClientRetry(c, c.retry_count + 1)
                               ELSE ClientRaise(c, "GraphAPIError",
                                                "Server error 500. Max retries reached.")
                  /\ UNCHANGED token_manager
             [] r = "timeout" ->
                  /\ client' = IF CanRetry(c.retry_count)
                               THEN ClientRetry(c, c.retry_count + 1)
                               ELSE ClientRaise(c, "GraphAPIError", "Network error: timeout")
                  /\ UNCHANGED token_manager
             [] r = "ssl" ->
                  /\ client' = ClientRaise(c, "GraphAPIError", "Network error: ssl")
                  /\ UNCHANGED token_manager
             [] OTHER ->
                  /\ client' = ClientRaise(c, "GraphAPIError", "HTTP 404")
                  /\ UNCHANGED token_manager
    /\ UNCHANGED <<sharedStore, gen, env, ledger, ledgerUp, cache, store, clock, pc, call,
                   loc, result, ncalls, nfaults, last>>

\* the user logs in before the client is used; time passes while it is used
FirstLogin(token_response, saved) ==
    /\ client.pc = "idle"
    /\ token_manager.account_name = ""
    /\ Login(token_response, saved)

NextGraph ==
    \/ \E t \in IssuedTokens, saved \in BOOLEAN : FirstLogin(t, saved)
    \/ \E t \in Times : Advance(t)
    \/ Request
    \/ \E refreshed \in IssuedTokens \cup {NoToken} : AcquireToken(refreshed)
    \/ \E r \in Responses : Respond(r)

SpecGraph == Init /\ [][NextGraph]_vars

(***************************************************************************)
(* Claims.                                                                 *)
(***************************************************************************)
Registered(row) == row.status # "absent"

C2_VersionMonotone ==
    [][\A d \in DocIds :
          /\ Registered(docs[d]) =>
                /\ Registered(docs'[d])
                /\ docs'[d].version >= docs[d].version
                /\ docs'[d].content_hash # docs[d].content_hash =>
                      docs'[d].version > docs[d].version /\ docs'[d].status = "pending"
          /\ docs'[d].version # docs[d].version =>
                \E w \in Workers : /\ pc[w] = "reg_write" /\ pc'[w] = "construct"
                                   /\ call[w].doc = d
          /\ \A w \in Workers :
                (/\ pc[w] = "reg_write" /\ pc'[w] = "construct" /\ call[w].doc = d
                 /\ loc[w].existing = "row")
                => docs'[d].version > docs[d].version /\ docs'[d].status = "pending"
      ]_vars

C2_Witness ==
    \E d \in DocIds : docs[d].version >= 2 /\ docs[d].status = "pending"

StatusChange(d) == <<docs[d].status, docs'[d].status>>

C4_ConcurrentRegister ==
    \A w, v \in Workers :
        (/\ w # v
         /\ pc[w] # "idle" /\ pc[v] # "idle"
         /\ call[w].doc = call[v].doc
         /\ call[w].hash = call[v].hash
         /\ call[w].prior = call[v].prior)
        => /\ loc[w].cause # "unique_doc_id"
           /\ docs[call[w].doc].version <= call[w].prior.version + 1

\* the chunks the chunker makes of a file, and their normalized paragraphs
FileChunks(h) == ChunkerProcess(DoclingProcess(h).pages)

Paragraphs(h) == {NormalizeText(FileChunks(h)[i].text) : i \in 1..Len(FileChunks(h))}

\* C5: when a call completes a document while another document is completed, every
\* paragraph the two contents share after normalization has exactly one cached
\* embedding and exactly one entry in the saved index metadata, and the registry
\* of the deduper holds one record for it that lists both documents.
C5_DedupAcrossDocuments ==
    \A w \in Workers :
        (pc[w] = "done" /\ result[w].status = "completed") =>
            \A d \in DocIds \ {call[w].doc} :
                docs[d].status = "completed" =>
                    \A p \in Paragraphs(call[w].hash) \cap Paragraphs(docs[d].content_hash) :
                        /\ Cardinality({k \in DOMAIN cache : NormalizeText(SubSeq(k, 3, Len(k))) = p}) = 1
                        /\ Cardinality({c \in DOMAIN disk.chunk_metadata :
                                           NormalizeText(c.text) = p}) = 1
                        /\ \E i \in 1..Len(loc[w].reg) :
                              /\ loc[w].reg[i].sha256 = p
                              /\ {FileDocId(call[w].hash), FileDocId(docs[d].content_hash)}
                                    \subseteq Range(loc[w].reg[i].doc_ids)

\* C6: a call in which the embedder returned a vector of the wrong length returns
\* failed with an error naming the dimension, leaves the ledger status failed, and
\* leaves the saved index with the number of vectors it had before the call.
C6_WrongDimension ==
    \A w \in Workers :
        (pc[w] = "done" /\ loc[w].bad) =>
            /\ result[w].status = "failed"
            /\ result[w].error = <<"Pipeline failed", "dimension">>
            /\ docs[call[w].doc].status = "failed"
            /\ docs[call[w].doc].error_message = <<"Pipeline failed", "dimension">>
            /\ Len(disk.index) = call[w].vecBefore

C6_Witness ==
    \E w \in Workers :
        /\ pc[w] = "done"
        /\ loc[w].bad
        /\ Len(loc[w].emb) >= 2
        /\ call[w].vecBefore > 0
        /\ result[w].status = "failed"

\* C7: a call in which an exception was raised returns a result with status failed
\* and an error, and the ledger holds the document as failed.
C7_NeverRaises ==
    \A w \in Workers :
        (pc[w] = "done" /\ loc[w].cause # "") =>
            /\ result[w].status = "failed"
            /\ result[w].error # NoError
            /\ docs[call[w].doc].status = "failed"

\* the chunk rows of a document
ChunkRowsOf(d) == {c \in DOMAIN chunkRows : chunkRows[c].doc_id = d}

\* C8: a document the ledger holds as completed has chunks_count chunk rows, each
\* marked is_embedded and each with a metadata entry in the saved index that
\* points at a stored vector.
C8_NoHalfCompleted ==
    \A d \in DocIds :
        docs[d].status = "completed" =>
            /\ docs[d].chunks_count = Cardinality(ChunkRowsOf(d))
            /\ \A c \in ChunkRowsOf(d) :
                  /\ chunkRows[c].is_embedded
                  /\ c \in DOMAIN disk.chunk_metadata
                  /\ disk.chunk_metadata[c].index_id < Len(disk.index)

\* the place of a program point in the order ingest_document runs through
PcRank(p) ==
    CASE p = "idle" -> 0 [] p = "check" -> 1 [] p = "reg_select" -> 2
      [] p = "reg_write" -> 3 [] p = "construct" -> 4 [] p = "set_processing" -> 5
      [] p = "stages" -> 6 [] p = "upsert" -> 7 [] p = "add_chunks" -> 8
      [] p = "mark" -> 9 [] p = "set_completed" -> 10 [] p = "except_inner" -> 11
      [] p = "except_outer" -> 12 [] p = "done" -> 13

\* the program points between update_status(PROCESSING) and the last ledger write
AfterProcessing == {"stages", "upsert", "add_chunks", "mark", "set_completed",
                    "except_inner"}

ActiveVectors(st) ==
    Cardinality({c \in DOMAIN st.chunk_metadata : ~st.chunk_metadata[c].deleted})

\* C10: a query returns no chunk the store holds as deleted; a delete_chunk that
\* returned True left total_vectors as it was and took one from the number of
\* active vectors; a delete_chunk that returned False changed nothing.
C10_DeletionSemantics ==
    /\ last.op = "query" =>
          \A i \in 1..Len(last.out) :
              ~vs[last.store].chunk_metadata[last.out[i].chunk_id].deleted
    /\ (last.op = "delete" /\ last.out = TRUE) =>
          /\ GetStats(vs[last.store]).total_vectors = GetStats(last.before).total_vectors
          /\ ActiveVectors(vs[last.store]) = ActiveVectors(last.before) - 1
    /\ (last.op = "delete" /\ last.out = FALSE) => vs[last.store] = last.before

\* C11: a store instance built over the index directory after delete_chunk marked
\* chunks deleted holds each of those chunks with deleted = TRUE.
C11_DeletePersisted ==
    last.op = "load" =>
        \A c \in DOMAIN last.before.chunk_metadata :
            last.before.chunk_metadata[c].deleted =>
                /\ c \in DOMAIN vs[last.store].chunk_metadata
                /\ vs[last.store].chunk_metadata[c].deleted

\* the program points of a call whose upsert has returned
AfterUpsert == {"add_chunks", "mark", "set_completed"}

\* C12: while a call whose vector_store.upsert returned is still running or has
\* returned completed, every entry of its batch is in the saved metadata and points
\* at a vector of the saved index, whatever the other instances have upserted since.
C12_UpsertsPermanent ==
    \A w \in Workers :
        (pc[w] \in AfterUpsert \/ (pc[w] = "done" /\ result[w].status = "completed")) =>
            \A i \in 1..Len(loc[w].emb) :
                /\ loc[w].emb[i].chunk_id \in DOMAIN disk.chunk_metadata
                /\ disk.chunk_metadata[loc[w].emb[i].chunk_id].index_id < Len(disk.index)

\* no call of ingest_document is running
NoCallRunning == \A w \in Workers : pc[w] \in {"idle", "done"}

\* C13: between calls of ingest_document, a query of the service returns what a
\* query on the index directory as it then is returns, and get_index_info reports
\* the number of vectors saved there.
C13_LoadOnDemand ==
    [][NoCallRunning =>
          /\ ServiceQuery =>
                last'.out \in VectorStoreQuery(LoadOrCreateIndex(disk, clock),
                                               last'.arg[1], last'.arg[2])
          /\ ServiceStats => last'.out.total_vectors = Len(disk.index)
      ]_vars

\* the program points of add between _load_store and the last write
AddSection == {"add_load_index", "add_load_texts", "add_write_index", "add_write_texts",
               "add_unlock"}

\* the program points of query in _load_store
QueryLoading == {"query_load_index", "query_load_texts"}

\* s is a prefix of t
IsPrefix(s, t) == Len(s) <= Len(t) /\ SubSeq(t, 1, Len(s)) = s

\* C14: at most one add is between its load and its unlock; no query is loading
\* while an add is there; the index and the texts a query has loaded hold the same
\* entries; what an add that has returned wrote is in both files; and no step
\* removes an entry from either file.
C14_LockDiscipline ==
    /\ [](/\ Cardinality({p \in Procs : proc[p].pc \in AddSection}) <= 1
          /\ \A p, q \in Procs :
                proc[p].pc \in AddSection => proc[q].pc \notin QueryLoading
          /\ \A q \in Procs :
                (proc[q].op = "query" /\ proc[q].pc \in {"query_search", "done"}) =>
                    /\ proc[q].index = proc[q].texts
                    /\ proc[q].raised \in {"", "FileNotFoundError"}
          /\ \A p \in Procs :
                (proc[p].op = "add" /\ proc[p].pc = "done") =>
                    /\ Range(proc[p].arg) \subseteq Range(files.index)
                    /\ Range(proc[p].arg) \subseteq Range(files.texts))
    /\ [][IsPrefix(files.index, files'.index) /\ IsPrefix(files.texts, files'.texts)]_vars

C14_Witness ==
    \E p, q, r \in Procs :
        /\ proc[p].op = "add" /\ proc[p].pc = "add_write_texts"
        /\ proc[q].op = "add" /\ proc[q].pc = "add_lock"
        /\ proc[r].op = "query" /\ proc[r].pc = "query_lock"
        /\ files.index # files.texts

\* C15: an upsert of at least one entry returns a version greater than the version
\* the store had before it; an upsert of an empty batch returns that version.
C15_VersionBumped ==
    last.op = "upsert" =>
        IF last.arg = <<>>
        THEN last.out = last.before.current_version
        ELSE last.out > last.before.current_version

\* C16: a query that found no index (core/vector_store.py), or an index without
\* vectors (VectorStore.query), returned the empty list and raised nothing.
C16_EmptyQuery ==
    /\ \A p \in Procs :
          (proc[p].op = "query" /\ proc[p].pc = "done" /\ ~proc[p].has_index) =>
              proc[p].raised = "" /\ proc[p].out = <<>>
    /\ (last.op = "query" /\ Len(last.before.index) = 0) => last.out = <<>>

\* the (text, model) pairs other than the one a call was made with
OtherPairs(text, model) == {tm \in CacheTexts \X CacheModels : tm # <<text, model>>}

\* C17: straight after put(t, m, v), get(t, m) is v; a put leaves what get returns
\* for every other (text, model) pair as it was, so a pair never put stays None and
\* a pair put earlier keeps its vector; get returns the stored vector or None and
\* changes no cache state.
C17_RoundTrip ==
    [][/\ last'.op = "put" =>
            /\ CacheGet(cache', last'.arg[1], last'.arg[2]) = <<last'.arg[3]>>
            /\ \A tm \in OtherPairs(last'.arg[1], last'.arg[2]) :
                  CacheGet(cache', tm[1], tm[2]) = CacheGet(cache, tm[1], tm[2])
       /\ last'.op = "get" => cache' = cache]_vars

\* C18: a put, get or clear leaves the vector of every entry that exists before and
\* after it as it was.
C18_Pure ==
    [][\A k \in DOMAIN cache \cap DOMAIN cache' :
          cache'[k].vector_data = cache[k].vector_data]_vars

\* C19: no finished call was failed by the embedding cache: a call during which
\* embedding_cache.get or put raised ends completed, and so does its document.
C19_CacheFailsOpen ==
    \A w \in Workers :
        (pc[w] = "done" /\ loc[w].cause = "cache") =>
            /\ result[w].status = "completed"
            /\ docs[call[w].doc].status = "completed"

\* C20: chunk_text of n words with n > chunk_size and chunk_overlap < chunk_size
\* emits as chunk k the words [k*(chunk_size - chunk_overlap),
\* min(k*(chunk_size - chunk_overlap) + chunk_size, n)) with order k, its last
\* window is the first one that reaches word n, and every word is in some chunk;
\* with n <= chunk_size it emits the whole text as one chunk of order 0; 1500
\* words with chunk_size 512 and overlap 50 make 4 chunks of orders 0 to 3.
C20_ChunkWindows ==
    last.op = "chunk_text" =>
        LET words == last.arg[1]
            n == Len(words)
            size == last.arg[2]
            step == last.arg[2] - last.arg[3]
            out == last.out
        IN  /\ n <= size => /\ Len(out) = 1
                            /\ out[1].order = 0
                            /\ out[1].text = words
            /\ n > size =>
                  /\ \A i \in 1..Len(out) :
                        /\ out[i].order = i - 1
                        /\ out[i].text = SubSeq(words, (i - 1) * step + 1,
                                                Min((i - 1) * step + size, n))
                        /\ (i < Len(out)) = ((i - 1) * step + size < n)
                  /\ Len(out) >= 2
                  /\ \A k \in 1..n : \E i \in 1..Len(out) :
                        (i - 1) * step < k /\ k <= (i - 1) * step + Len(out[i].text)
            /\ (n = ExampleWords /\ size = DefaultChunkSize
                    /\ step = DefaultChunkSize - DefaultChunkOverlap)
                 => [i \in 1..Len(out) |-> out[i].order] = <<0, 1, 2, 3>>

\* 1500 words were chunked with the default sizes; the fourth window is truncated
C20_Witness ==
    /\ last.op = "chunk_text"
    /\ Len(last.arg[1]) = ExampleWords
    /\ Len(last.out) = 4
    /\ Len(last.out[4].text) < last.arg[2]

\* C21: chunk_text of a text without words emitted no chunk.
C21_EmptyTextNoChunks ==
    (last.op = "chunk_text" /\ last.arg[1] = <<>>) => last.out = <<>>

\* C22: every turn of the loop of chunk_text that does not end the generator moves
\* the window start forward, and a generator over n words has yielded at most
\* max(n, 1) chunks.
C22_ChunksFinite ==
    /\ [](gen.chunk_order <= IF gen.words = <<>> THEN 1 ELSE Len(gen.words))
    /\ [][(gen.pc = "loop" /\ gen'.pc = "loop") => gen'.start_idx > gen.start_idx]_vars

\* C23: when a call has completed a document, the chunk_order values of the
\* document's rows in the chunks table, and the order values of its entries in
\* the saved index metadata, are exactly 0 .. chunks_count - 1, each once.
C23_OrderContiguous ==
    \A w \in Workers :
        (pc[w] = "done" /\ result[w].status = "completed") =>
            LET d == call[w].doc
                meta == {c \in DOMAIN disk.chunk_metadata :
                            disk.chunk_metadata[c].doc_id = d}
            IN  /\ Cardinality(ChunkRowsOf(d)) = docs[d].chunks_count
                /\ {chunkRows[c].chunk_order : c \in ChunkRowsOf(d)}
                      = 0..(docs[d].chunks_count - 1)
                /\ {disk.chunk_metadata[c].order : c \in meta}
                      = 0..(Cardinality(meta) - 1)

\* C24: no document in status pending carries an error message.
C24_PendingNoError ==
    \A d \in DocIds : docs[d].status = "pending" => docs[d].error_message = NoError

\* C27: get_access_token returned the access_token of a token whose expiry is more
\* than 5 minutes away, or raised AuthenticationError.
C27_TokenOrAuthError ==
    last.op = "get_access_token" =>
        \/ last.out.outcome = "AuthenticationError"
        \/ /\ last.out.outcome = "return"
           /\ last.out.token.access_token # ""
           /\ last.out.token.expires_at # 0 =>
                  env.now < last.out.token.expires_at - TokenBuffer

\* C25: a request whose first response was 401 fetched the token a second time,
\* and when its retry got 401 as well it ended after that second response with
\* GraphAPIError "Authentication failed ...".
C25_RetryOn401 ==
    (client.pc = "done" /\ client.responses # <<>> /\ client.responses[1] = "401") =>
        /\ client.fetched >= 2
        /\ (Len(client.responses) >= 2 /\ client.responses[2] = "401") =>
              /\ Len(client.responses) = 2
              /\ client.outcome = "GraphAPIError"
              /\ client.message = "Authentication failed. Please run 'teams-cli login' again."

\* the responses after which the code may send the request again
Retryable == {"429", "500", "timeout"}

\* C26: a request sends at most max_retries + 1 attempts; every response that does
\* not end the call raises retry_count, which never exceeds max_retries, so the
\* call ends; a call that got max_retries + 1 retryable responses raised
\* GraphAPIError; a call returns exactly when its last response is 200, 201 or
\* 204, which is then its first such response, and it returns that body; a call
\* that another response ended raised GraphAPIError; only 401, 429, 5xx and
\* retryable network errors are ever followed by another attempt.
C26_BoundedRetry ==
    /\ [](/\ Len(client.responses) <= max_retries + 1
          /\ client.retry_count <= max_retries
          /\ \A i \in 1..(Len(client.responses) - 1) :
                client.responses[i] \in Retryable \cup {"401"}
          /\ (client.pc = "done" /\ client.responses # <<>>) =>
                LET r == client.responses[Len(client.responses)]
                IN  /\ (client.outcome = "return") = (r \in Success)
                    /\ r \in Success => client.body = ResponseBody(r)
                    /\ (r \notin Success /\ client.fetched = Len(client.responses))
                          => client.outcome = "GraphAPIError"
          /\ client.pc \in {"token", "send"} =>
                Len(client.responses) <= client.retry_count + 1)
    /\ [][(client.pc = "send" /\ client' # client /\ client'.pc # "done")
             => /\ client'.pc = "token"
                /\ client'.retry_count > client.retry_count]_client
    /\ [][client.pc = "token" => client'.pc \in {"send", "done"}]_client

\* six attempts, answered 429, 500 and a timeout among them, and then GraphAPIError
C26_Witness ==
    /\ client.pc = "done"
    /\ Len(client.responses) = max_retries + 1
    /\ Retryable \subseteq Range(client.responses)
    /\ client.outcome = "GraphAPIError"

\* the chunk_ids the chunker makes of the file of a call
ChunkIdsOf(h) == {FileChunks(h)[i].chunk_id : i \in 1..Len(FileChunks(h))}

\* C28: what a call passes on from deduplication to embedding, upsert and
\* ledger.add_chunks are chunks of the document the call is processing.
C28_DedupOnlyFilters ==
    \A w \in Workers :
        pc[w] \in {"upsert"} \cup AfterUpsert =>
            \A i \in 1..Len(loc[w].emb) :
                loc[w].emb[i].chunk_id \in ChunkIdsOf(call[w].hash)

\* C30: every row of the chunks table belongs to a document that has a row in the
\* documents table, and a call that returned completed leaves its document
\* completed in the ledger.
C30_LedgerIntegrity ==
    /\ \A c \in DOMAIN chunkRows : docs[chunkRows[c].doc_id].status # "absent"
    /\ \A w \in Workers :
          (pc[w] = "done" /\ result[w].status = "completed") =>
              docs[call[w].doc].status = "completed"

\* C29: in every VectorStore instance each metadata entry's index_id is a position
\* of the index, no two chunk_ids have the same index_id, and every position of
\* the index is the index_id of exactly one chunk_id.
C29_MetadataMatchesIndex ==
    \A s \in StoreIds :
        LET meta == vs[s].chunk_metadata
            ntotal == Len(vs[s].index)
        IN  /\ \A c \in DOMAIN meta : meta[c].index_id < ntotal
            /\ \A c1, c2 \in DOMAIN meta : meta[c1].index_id = meta[c2].index_id => c1 = c2
            /\ \A p \in 0..(ntotal - 1) :
                  Cardinality({c \in DOMAIN meta : meta[c].index_id = p}) = 1

====
